---- MODULE Spec2Model ----
(***************************************************************************)
(* otelsarama: the consumer-message dispatch wrapper (dispatcher.go), the  *)
(* message process instrumenter (process_operation.go) and the resolved    *)
(* configuration they read (option.go), as one state machine.              *)
(***************************************************************************)
EXTENDS Integers, Sequences, FiniteSets, TLC

\* ------------------------------------------------------------------ bounds
MaxMsgs == 2     \* messages the broker client feeds into Messages()
MaxOps == 1      \* process operations opened
MaxStops == 2    \* Stop calls made over all operations
MaxOpts == 2     \* options handed to newConfig

\* ------------------------------------------------------------ attributes
\* attribute.Value: a type tag with a numeric or a string payload.
AttributeString(k, v) == [key |-> k, value |-> [vtype |-> "STRING", stringly |-> v, numeric |-> 0]]

AttributeInt(k, v) == [key |-> k, value |-> [vtype |-> "INT64", stringly |-> "", numeric |-> v]]

ZeroKV == [key |-> "", value |-> [vtype |-> "INVALID", stringly |-> "", numeric |-> 0]]

MessagingSystem(v) == AttributeString("messaging.system", v)

MessagingDestinationName(v) == AttributeString("messaging.destination.name", v)

Digit(d) == <<"0", "1", "2", "3", "4", "5", "6", "7", "8", "9">>[d + 1]

RECURSIVE FormatUint(_)
FormatUint(n) == IF n < 10 THEN Digit(n) ELSE FormatUint(n \div 10) \o Digit(n % 10)

\* strconv.FormatInt(n, 10)
FormatInt(n) == IF n < 0 THEN "-" \o FormatUint(-n) ELSE FormatUint(n)

\* ---------------------------------------------------------------- slices
\* A slice is a length over a backing array; Len(arr) is its capacity.
NilSlice == [arr |-> <<>>, len |-> 0]

\* runtime growslice for capacities below 256 elements
GrowCap(oldCap, newLen) == IF newLen > 2 * oldCap THEN newLen ELSE 2 * oldCap

\* append(s, elems...): in place when the capacity allows, else a fresh array.
GoAppend_Overwrite(s, elems) ==
    LET n == s.len + Len(elems)
        c == Len(s.arr)
    IN  IF n <= c
        THEN [arr |-> [i \in 1..c |-> IF i >= s.len /\ i < n
                                      THEN elems[i - s.len + 1] ELSE s.arr[i]],
              len |-> n, grew |-> FALSE]
        ELSE [arr |-> SubSeq(s.arr, 1, s.len) \o elems
                        \o [i \in 1..(GrowCap(c, n) - n) |-> ZeroKV],
              len |-> n, grew |-> TRUE]

GoAppend(s, elems) ==
    LET n == s.len + Len(elems)
        c == Len(s.arr)
    IN  IF n <= c
        THEN [arr |-> [i \in 1..c |-> IF i > s.len /\ i <= n
                                      THEN elems[i - s.len] ELSE s.arr[i]],
              len |-> n, grew |-> FALSE]
        ELSE [arr |-> SubSeq(s.arr, 1, s.len) \o elems
                        \o [i \in 1..(GrowCap(c, n) - n) |-> ZeroKV],
              len |-> n, grew |-> TRUE]

\* The elements a slice shows.
Elems(s) == SubSeq(s.arr, 1, s.len)

\* ------------------------------------------------------ trace propagation
EmptySC == [traceID |-> "", spanID |-> "", remote |-> FALSE]

IsValid(sc) == sc.traceID # "" /\ sc.spanID # ""

\* context.Background()
Background == [span |-> EmptySC]

SpanContextFromContext(ctx) == ctx.span

\* A message without a "traceparent" header; other values of Headers are the
\* value of that header.
NoHeader == "none"

\* carrier.Get(key): the value of the message header named key, "" without one.
CarrierGet(m, key) == IF key = "traceparent" /\ m.Headers # NoHeader THEN m.Headers ELSE ""

\* Propagators.Extract(ctx, carrier) of the W3C trace-context propagator:
\* a well-formed traceparent yields a remote span context, anything else ctx.
Extract(ctx, m) ==
    IF CarrierGet(m, "traceparent") = "00-tA-sA-01"
    THEN [span |-> [traceID |-> "tA", spanID |-> "sA", remote |-> TRUE]]
    ELSE ctx

\* trace.LinkFromContext(ctx)
LinkFromContext(ctx) == [SpanContext |-> SpanContextFromContext(ctx)]

\* Tracer.Start(ctx, name, opts...): the span in ctx is the parent of the new
\* span unless the options carry WithNewRoot.
TracerStart(ctx, name, attrs, kind, links, newRoot) ==
    [name |-> name, attrs |-> attrs, kind |-> kind, links |-> links,
     parent |-> IF newRoot THEN EmptySC ELSE SpanContextFromContext(ctx),
     ended |-> 0]

\* ------------------------------------------------------------------ inputs
\* sarama.ConsumerMessage values the broker client may deliver.
Messages ==
    { [Topic |-> "orders", Partition |-> 0, Offset |-> 7, Headers |-> "00-tA-sA-01"],
      [Topic |-> "audit", Partition |-> 12, Offset |-> 105, Headers |-> NoHeader],
      [Topic |-> "orders", Partition |-> 3, Offset |-> 8, Headers |-> "garbage"] }

\* Resolved configurations (option.go): address, port and group each set or not.
Configs ==
    [ServerAddress : {"", "localhost"}, ServerPort : {0, 9092}, ConsumerGroupID : {"", "g1"}]

\* Instrument names (dispatcher.go, process_operation.go).
ReceiveDurationName == "messaging.client.operation.duration"

ConsumedMessagesName == "messaging.client.consumed.messages"

ProcessDurationName == "messaging.client.process.duration"

\* cfg.Meter is supplied by the metrics backend. What one of its constructors
\* returns: "ok" (instrument, nil error), "err_inst" (a usable instrument and
\* an error), "err_nil" (a nil instrument and an error).
Meters ==
    { [Float64Histogram |-> "ok", Int64Counter |-> "ok"],
      [Float64Histogram |-> "err_inst", Int64Counter |-> "err_inst"],
      [Float64Histogram |-> "err_nil", Int64Counter |-> "ok"],
      [Float64Histogram |-> "ok", Int64Counter |-> "err_nil"] }

\* A nil instrument value (the zero value of the interface).
NilInstrument == "nil"

\* The instrument value the constructor keeps: the error is discarded.
Acquire(outcome, name) == IF outcome = "err_nil" THEN NilInstrument ELSE name

\* error values handed to SetError; NilErr is the nil error.
NilErr == [isNil |-> TRUE, text |-> ""]

Errors == { [isNil |-> FALSE, text |-> "boom"], [isNil |-> FALSE, text |-> "timeout"] }

\* err.Error()
ErrorText(e) == e.text

VARIABLES
    cfg,             \* the resolved config
    meter,           \* behaviour of cfg.Meter
    w,               \* consumerMessagesDispatcherWrapper fields
    heap,            \* message objects by reference (index)
    fed,             \* references and contents as fed into the input channel
    inQ, inClosed,   \* the dispatcher's Messages() channel
    pc,              \* position of Run
    msg, attrs, span, \* locals of Run's loop body
    delivered,       \* messages received from w.messages by the consumer
    outCloses,       \* close(w.messages) calls
    consumerStopped, \* the downstream consumer no longer receives
    spans,           \* spans started on cfg.Tracer
    recvDur,         \* measurements on the receive-duration histogram
    consumed,        \* additions to the consumed-messages counter
    events,          \* telemetry and forwarding events in order of occurrence
    instr,           \* the MessageProcessInstrumenter
    ops,             \* MessageProcessOperation values held by the caller
    procDur,         \* measurements on the process-duration histogram
    stopLog,         \* outcome of each Stop call
    opts,            \* options newConfig has applied so far, in order
    confs,           \* the config under construction after each applied option
    confPc,          \* position of newConfig: "applying" or "resolved"
    resolved         \* the config newConfig returned

vars == <<cfg, meter, w, heap, fed, inQ, inClosed, pc, msg, attrs, span,
          delivered, outCloses, consumerStopped, spans, recvDur, consumed, events,
          instr, ops, procDur, stopLog, opts, confs, confPc, resolved>>

confVars == <<opts, confs, confPc, resolved>>

dispVars == <<w, heap, fed, inQ, inClosed, pc, msg, attrs, span,
              delivered, outCloses, consumerStopped, recvDur, consumed, events>>

procVars == <<instr, ops, procDur, stopLog>>
\* ------------------------------------------------------------ construction
\* newConsumerMessagesDispatcherWrapper(d, cfg)
DispatcherDefaultAttributes(c) ==
    LET a0 == [arr |-> <<MessagingSystem("kafka"),
                         AttributeString("messaging.operation.name", "receive")>>,
               len |-> 2]
        a1 == IF c.ServerAddress # ""
              THEN GoAppend(a0, <<AttributeString("server.address", c.ServerAddress)>>)
              ELSE a0
        a2 == IF c.ServerPort # 0
              THEN GoAppend(a1, <<AttributeInt("server.port", c.ServerPort)>>)
              ELSE a1
        a3 == IF c.ConsumerGroupID # ""
              THEN GoAppend(a2, <<AttributeString("messaging.consumer.group.name",
                                                  c.ConsumerGroupID)>>)
              ELSE a2
    IN  [arr |-> a3.arr, len |-> a3.len]

newConsumerMessagesDispatcherWrapper(c, m) ==
    [receiveDuration |-> Acquire(m.Float64Histogram, ReceiveDurationName),
     consumedMessages |-> Acquire(m.Int64Counter, ConsumedMessagesName),
     defaultAttributes |-> DispatcherDefaultAttributes(c)]

\* NewMessageProcessInstrumenter(opts...)
ProcessDefaultAttributes(c) ==
    LET a0 == [arr |-> <<MessagingSystem("kafka"),
                         AttributeString("messaging.operation.name", "process")>>,
               len |-> 2]
        a1 == IF c.ServerAddress # ""
              THEN GoAppend(a0, <<AttributeString("server.address", c.ServerAddress)>>)
              ELSE a0
        a2 == IF c.ServerPort # 0
              THEN GoAppend(a1, <<AttributeInt("server.port", c.ServerPort)>>)
              ELSE a1
    IN  [arr |-> a2.arr, len |-> a2.len]

NewMessageProcessInstrumenter(c, m) ==
    [metricProcessDuration |-> Acquire(m.Float64Histogram, ProcessDurationName),
     defaultAttributes |-> ProcessDefaultAttributes(c)]

\* The zero value of MessageProcessInstrumenter.
ZeroInstrumenter == [metricProcessDuration |-> NilInstrument, defaultAttributes |-> NilSlice]

\* ------------------------------------------------------------- newConfig
\* Strings that the options parse are sequences of one-character strings.
RECURSIVE StringOf(_)
StringOf(cs) == IF cs = <<>> THEN "" ELSE Head(cs) \o StringOf(Tail(cs))

\* strings.Split(s, sep)
RECURSIVE Split(_, _)
Split(cs, sep) ==
    IF \E i \in 1..Len(cs) : cs[i] = sep
    THEN LET i == CHOOSE j \in 1..Len(cs) :
                      cs[j] = sep /\ \A h \in 1..(j - 1) : cs[h] # sep
         IN  <<SubSeq(cs, 1, i - 1)>> \o Split(SubSeq(cs, i + 1, Len(cs)), sep)
    ELSE <<cs>>

\* strings.Join(elems, sep)
RECURSIVE Join(_, _)
Join(elems, sep) ==
    IF elems = <<>> THEN <<>>
    ELSE IF Len(elems) = 1 THEN elems[1]
    ELSE elems[1] \o <<sep>> \o Join(Tail(elems), sep)

IsDigit(ch) == \E d \in 0..9 : Digit(d) = ch

DigitVal(ch) == CHOOSE d \in 0..9 : Digit(d) = ch

RECURSIVE ParseUint(_)
ParseUint(cs) ==
    IF cs = <<>> THEN 0
    ELSE ParseUint(SubSeq(cs, 1, Len(cs) - 1)) * 10 + DigitVal(cs[Len(cs)])

\* strconv.Atoi(s): an optional sign and one or more decimal digits (values
\* within the range of int); anything else is an error.
Atoi(cs) ==
    LET signed == cs # <<>> /\ cs[1] \in {"+", "-"}
        digits == IF signed THEN Tail(cs) ELSE cs
    IN  IF digits # <<>> /\ \A i \in 1..Len(digits) : IsDigit(digits[i])
        THEN [ok |-> TRUE,
              val |-> IF signed /\ cs[1] = "-" THEN 0 - ParseUint(digits)
                      ELSE ParseUint(digits)]
        ELSE [ok |-> FALSE, val |-> 0]

\* Provider and propagator references; NilRef is the nil interface value.
NilRef == "nil"

GlobalTracerProvider == "otel.GetTracerProvider()"

GlobalMeterProvider == "otel.GetMeterProvider()"

GlobalTextMapPropagator == "otel.GetTextMapPropagator()"

defaultTracerName == "go.opentelemetry.io/contrib/instrumentation/github.com/IBM/sarama/otelsarama"

defaultMeterName == defaultTracerName

\* config{Propagators: ..., TracerProvider: ..., MeterProvider: ...}
InitialConfig ==
    [TracerProvider |-> GlobalTracerProvider,
     MeterProvider |-> GlobalMeterProvider,
     Propagators |-> GlobalTextMapPropagator,
     Tracer |-> NilRef,
     Meter |-> NilRef,
     ServerAddress |-> "",
     ServerPort |-> 0,
     ConsumerGroupID |-> ""]

\* WithTracerProvider(provider).apply(c)
WithTracerProvider_NoNilCheck(provider, c) == [c EXCEPT !.TracerProvider = provider]

WithTracerProvider(provider, c) ==
    IF provider # NilRef THEN [c EXCEPT !.TracerProvider = provider] ELSE c

\* WithPropagators(propagators).apply(c)
WithPropagators(propagators, c) ==
    IF propagators # NilRef THEN [c EXCEPT !.Propagators = propagators] ELSE c

\* WithBrokerAddresses(addresses).apply(c)
WithBrokerAddresses_Comma(addresses, c) ==
    IF Len(addresses) = 1
    THEN LET uriParts == Split(addresses[1], ":")
             c1 == [c EXCEPT !.ServerAddress = StringOf(uriParts[1])]
         IN  IF Len(uriParts) > 1 /\ Atoi(uriParts[2]).ok
             THEN [c1 EXCEPT !.ServerPort = Atoi(uriParts[2]).val]
             ELSE c1
    ELSE [c EXCEPT !.ServerAddress = StringOf(Join(addresses, ","))]

WithBrokerAddresses(addresses, c) ==
    IF Len(addresses) = 1
    THEN LET uriParts == Split(addresses[1], ":")
             c1 == [c EXCEPT !.ServerAddress = StringOf(uriParts[1])]
         IN  IF Len(uriParts) > 1 /\ Atoi(uriParts[2]).ok
             THEN [c1 EXCEPT !.ServerPort = Atoi(uriParts[2]).val]
             ELSE c1
    ELSE [c EXCEPT !.ServerAddress = StringOf(Join(addresses, ";"))]

\* WithConsumerGroup(groupID).apply(c)
WithConsumerGroup(groupID, c) == [c EXCEPT !.ConsumerGroupID = groupID]

\* Broker address lists handed to WithBrokerAddresses.
AddrLocalhost9092 == <<"l", "o", "c", "a", "l", "h", "o", "s", "t", ":", "9", "0", "9", "2">>

AddrNoPort == <<"h">>

AddrBadPort == <<"h", ":", "a", "b", "c">>

AddrA == <<"a", ":", "9", "0", "9", "2">>

AddrB == <<"b", ":", "9", "0", "9", "3">>

AddressLists == {<<AddrLocalhost9092>>, <<AddrNoPort>>, <<AddrBadPort>>, <<AddrA, AddrB>>}

\* The Option values: the four constructors of option.go with their argument.
Option(kind, ref, addresses, groupID) ==
    [kind |-> kind, ref |-> ref, addresses |-> addresses, groupID |-> groupID]

Options ==
    {Option("WithTracerProvider", r, <<>>, "") : r \in {NilRef, "tp1", "tp2"}}
    \cup {Option("WithPropagators", r, <<>>, "") : r \in {NilRef, "prop1", "prop2"}}
    \cup {Option("WithBrokerAddresses", NilRef, a, "") : a \in AddressLists}
    \cup {Option("WithConsumerGroup", NilRef, <<>>, g) : g \in {"", "g1", "g2"}}

\* opt.apply(&cfg)
Apply(o, c) ==
    CASE o.kind = "WithTracerProvider" -> WithTracerProvider(o.ref, c)
      [] o.kind = "WithPropagators" -> WithPropagators(o.ref, c)
      [] o.kind = "WithBrokerAddresses" -> WithBrokerAddresses(o.addresses, c)
      [] o.kind = "WithConsumerGroup" -> WithConsumerGroup(o.groupID, c)

\* cfg.Tracer = cfg.TracerProvider.Tracer(...); cfg.Meter = cfg.MeterProvider.Meter(...)
ResolveHandles(c) ==
    [c EXCEPT !.Tracer = [provider |-> c.TracerProvider, name |-> defaultTracerName],
              !.Meter = [provider |-> c.MeterProvider, name |-> defaultMeterName]]

NoAttrs == [alias |-> FALSE, arr |-> <<>>, len |-> 0]

Init ==
    /\ cfg \in Configs
    /\ meter \in Meters
    /\ w = newConsumerMessagesDispatcherWrapper(cfg, meter)
    /\ instr = NewMessageProcessInstrumenter(cfg, meter)
    /\ heap = <<>>
    /\ fed = <<>>
    /\ inQ = <<>>
    /\ inClosed = FALSE
    /\ pc = "range"
    /\ msg = 0
    /\ attrs = NoAttrs
    /\ span = 0
    /\ delivered = <<>>
    /\ outCloses = 0
    /\ consumerStopped = FALSE
    /\ spans = <<>>
    /\ recvDur = <<>>
    /\ consumed = <<>>
    /\ events = <<>>
    /\ ops = <<>>
    /\ procDur = <<>>
    /\ stopLog = <<>>
    /\ opts = <<>>
    /\ confs = <<InitialConfig>>
    /\ confPc = "applying"
    /\ resolved = InitialConfig

\* ------------------------------------------------------------- environment
\* The broker client sends a new message object on the dispatcher's channel.
Produce(m) ==
    /\ ~inClosed
    /\ Len(heap) < MaxMsgs
    /\ heap' = Append(heap, m)
    /\ fed' = Append(fed, [ref |-> Len(heap) + 1, content |-> m])
    /\ inQ' = Append(inQ, Len(heap) + 1)
    /\ UNCHANGED <<confVars, cfg, meter, w, inClosed, pc, msg, attrs, span, delivered,
                   outCloses, consumerStopped, spans, recvDur, consumed, events,
                   instr, ops, procDur, stopLog>>

\* The broker client closes the dispatcher's channel.
CloseInput ==
    /\ ~inClosed
    /\ inClosed' = TRUE
    /\ UNCHANGED <<confVars, cfg, meter, w, heap, fed, inQ, pc, msg, attrs, span, delivered,
                   outCloses, consumerStopped, spans, recvDur, consumed, events,
                   instr, ops, procDur, stopLog>>

\* The downstream consumer stops receiving from Messages().
ConsumerStop ==
    /\ ~consumerStopped
    /\ consumerStopped' = TRUE
    /\ UNCHANGED <<confVars, cfg, meter, w, heap, fed, inQ, inClosed, pc, msg, attrs, span,
                   delivered, outCloses, spans, recvDur, consumed, events,
                   instr, ops, procDur, stopLog>>

\* --------------------------------------------------------------------- Run
\* A receive from the input channel takes the oldest queued message.
ChanRecv_LIFO(q) == [val |-> q[Len(q)], rest |-> SubSeq(q, 1, Len(q) - 1)]

ChanRecv(q) == [val |-> Head(q), rest |-> Tail(q)]

\* The statement order of the loop body: Start, send, End, Record, Add.
Follows_EndBeforeSend(p) ==
    CASE p = "start" -> "end"
      [] p = "end" -> "send"
      [] p = "send" -> "record"
      [] p = "record" -> "add"
      [] p = "add" -> "range"

Follows_SkipEnd(p) ==
    CASE p = "start" -> "send"
      [] p = "send" -> "record"
      [] p = "end" -> "record"
      [] p = "record" -> "add"
      [] p = "add" -> "range"

Follows_SkipSend(p) ==
    CASE p = "start" -> "end"
      [] p = "send" -> "end"
      [] p = "end" -> "record"
      [] p = "record" -> "add"
      [] p = "add" -> "range"

Follows(p) ==
    CASE p = "start" -> "send"
      [] p = "send" -> "end"
      [] p = "end" -> "record"
      [] p = "record" -> "add"
      [] p = "add" -> "range"

\* attrs := append(w.defaultAttributes, destination, partition)
\* spanAttrs := append(attrs, message id)
RunAttrs_IdOnMetrics(defaults, m) ==
    LET r1 == GoAppend(defaults,
                       <<MessagingDestinationName(m.Topic),
                         AttributeString("messaging.destination.partition.id",
                                         FormatInt(m.Partition)),
                         AttributeString("messaging.message.id", FormatInt(m.Offset))>>)
    IN  [attrs |-> r1, spanAttrs |-> r1]

RunAttrs(defaults, m) ==
    LET r1 == GoAppend(defaults,
                       <<MessagingDestinationName(m.Topic),
                         AttributeString("messaging.destination.partition.id",
                                         FormatInt(m.Partition))>>)
        r2 == GoAppend([arr |-> r1.arr, len |-> r1.len],
                       <<AttributeString("messaging.message.id", FormatInt(m.Offset))>>)
    IN  [attrs |-> r1, spanAttrs |-> r2]

\* for msg := range msgs
RunRange ==
    /\ pc = "range"
    /\ inQ # <<>>
    /\ msg' = ChanRecv(inQ).val
    /\ inQ' = ChanRecv(inQ).rest
    /\ pc' = "start"
    /\ UNCHANGED <<confVars, cfg, meter, w, heap, fed, inClosed, attrs, span, delivered, outCloses,
                   consumerStopped, spans, recvDur, consumed, events, procVars>>

\* Extract, build attrs and spanAttrs, Tracer.Start.
RunStart ==
    /\ pc = "start"
    /\ LET m == heap[msg]
           parentSpanContext == Extract(Background, m)
           r1 == RunAttrs(w.defaultAttributes, m).attrs
           r2 == RunAttrs(w.defaultAttributes, m).spanAttrs
           \* the wrapper's backing array after both appends
           wArr == IF r1.grew THEN w.defaultAttributes.arr
                   ELSE IF r2.grew THEN r1.arr ELSE r2.arr
       IN  /\ w' = [w EXCEPT !.defaultAttributes.arr = wArr]
           /\ attrs' = [alias |-> ~r1.grew, arr |-> IF r1.grew THEN r1.arr ELSE <<>>,
                        len |-> r1.len]
           /\ spans' = Append(spans,
                  TracerStart(parentSpanContext, m.Topic \o " receive",
                              SubSeq(r2.arr, 1, r2.len), "internal",
                              <<LinkFromContext(parentSpanContext)>>, FALSE)
                  @@ [owner |-> "receive", ref |-> msg])
           /\ span' = Len(spans) + 1
    /\ events' = Append(events, [kind |-> "spanStart", ref |-> msg])
    /\ pc' = Follows(pc)
    /\ UNCHANGED <<confVars, cfg, meter, heap, fed, inQ, inClosed, msg, delivered, outCloses,
                   consumerStopped, recvDur, consumed, procVars>>

\* w.messages <- msg, met by a receive of the downstream consumer.
RunSend_Buffered ==
    /\ pc = "send"
    /\ pc' = Follows(pc)
    /\ UNCHANGED <<confVars, cfg, meter, w, heap, fed, inQ, inClosed, msg, attrs, span,
                   delivered, outCloses, consumerStopped, spans, recvDur, consumed,
                   events, procVars>>

RunSend ==
    /\ pc = "send"
    /\ ~consumerStopped
    /\ delivered' = Append(delivered, [ref |-> msg, content |-> heap[msg]])
    /\ events' = Append(events, [kind |-> "forward", ref |-> msg])
    /\ pc' = Follows(pc)
    /\ UNCHANGED <<confVars, cfg, meter, w, heap, fed, inQ, inClosed, msg, attrs, span,
                   outCloses, consumerStopped, spans, recvDur, consumed, procVars>>

\* span.End()
RunSpanEnd ==
    /\ pc = "end"
    /\ spans' = [spans EXCEPT ![span].ended = @ + 1]
    /\ events' = Append(events, [kind |-> "spanEnd", ref |-> msg])
    /\ pc' = Follows(pc)
    /\ UNCHANGED <<confVars, cfg, meter, w, heap, fed, inQ, inClosed, msg, attrs, span,
                   delivered, outCloses, consumerStopped, recvDur, consumed, procVars>>

\* The elements of Run's attrs slice as read now.
AttrsNow == SubSeq(IF attrs.alias THEN w.defaultAttributes.arr ELSE attrs.arr, 1, attrs.len)

\* w.receiveDuration.Record(ctx, seconds, WithAttributes(attrs...)); the
\* wall-clock value measured is not part of the state.
RunRecord ==
    /\ pc = "record"
    /\ IF w.receiveDuration = NilInstrument
       THEN /\ pc' = "panic"
            /\ UNCHANGED <<recvDur, events>>
       ELSE /\ recvDur' = Append(recvDur, [attrs |-> AttrsNow, ref |-> msg])
            /\ events' = Append(events, [kind |-> "record", ref |-> msg])
            /\ pc' = Follows(pc)
    /\ UNCHANGED <<confVars, cfg, meter, w, heap, fed, inQ, inClosed, msg, attrs, span,
                   delivered, outCloses, consumerStopped, spans, consumed, procVars>>

\* w.consumedMessages.Add(ctx, 1, WithAttributes(attrs...))
RunAdd ==
    /\ pc = "add"
    /\ IF w.consumedMessages = NilInstrument
       THEN /\ pc' = "panic"
            /\ UNCHANGED <<consumed, events>>
       ELSE /\ consumed' = Append(consumed, [incr |-> 1, attrs |-> AttrsNow, ref |-> msg])
            /\ events' = Append(events, [kind |-> "add", ref |-> msg])
            /\ pc' = Follows(pc)
    /\ UNCHANGED <<confVars, cfg, meter, w, heap, fed, inQ, inClosed, msg, attrs, span,
                   delivered, outCloses, consumerStopped, spans, recvDur, procVars>>

\* The range loop ends on the closed, drained channel: close(w.messages).
RunClose_Early ==
    /\ pc = "range"
    /\ inQ = <<>>
    /\ outCloses' = outCloses + 1
    /\ pc' = "done"
    /\ UNCHANGED <<confVars, cfg, meter, w, heap, fed, inQ, inClosed, msg, attrs, span,
                   delivered, consumerStopped, spans, recvDur, consumed, events,
                   procVars>>

RunClose ==
    /\ pc = "range"
    /\ inQ = <<>>
    /\ inClosed
    /\ outCloses' = outCloses + 1
    /\ pc' = "done"
    /\ UNCHANGED <<confVars, cfg, meter, w, heap, fed, inQ, inClosed, msg, attrs, span,
                   delivered, consumerStopped, spans, recvDur, consumed, events,
                   procVars>>

Next ==
    \/ \E m \in Messages : Produce(m)
    \/ CloseInput
    \/ ConsumerStop
    \/ RunRange
    \/ RunStart
    \/ RunSend
    \/ RunSpanEnd
    \/ RunRecord
    \/ RunAdd
    \/ RunClose

Spec == Init /\ [][Next]_vars
\* --------------------------------------------------- process instrumenter
\* instrumenter.NewProcessOperation(msg): the returned struct literal sets
\* span, topic, partition and start (a wall-clock reading, not part of the
\* state); every other field keeps its zero value.
NewProcessOperationValue(instrumenter, sp, m) ==
    [instrumenter |-> ZeroInstrumenter,
     err |-> NilErr,
     span |-> sp,
     topic |-> m.Topic,
     partition |-> FormatInt(m.Partition)]

NewProcessOperation(m) ==
    /\ Len(ops) < MaxOps
    /\ LET parentSpanContext == Extract(Background, m)
           r == GoAppend(instr.defaultAttributes,
                         <<MessagingDestinationName(m.Topic),
                           AttributeString("messaging.message.id", FormatInt(m.Offset)),
                           AttributeString("messaging.destination.partition.id",
                                           FormatInt(m.Partition))>>)
       IN  /\ instr' = IF r.grew THEN instr
                       ELSE [instr EXCEPT !.defaultAttributes.arr = r.arr]
           /\ spans' = Append(spans,
                  TracerStart(parentSpanContext, m.Topic \o " process",
                              SubSeq(r.arr, 1, r.len), "consumer",
                              <<LinkFromContext(parentSpanContext)>>, FALSE)
                  @@ [owner |-> "process", ref |-> Len(ops) + 1])
           /\ ops' = Append(ops, NewProcessOperationValue(instr, Len(spans) + 1, m))
    /\ UNCHANGED <<confVars, cfg, meter, dispVars, procDur, stopLog>>

\* op.SetError(err)
SetError(i, e) ==
    /\ ops[i].err # e
    /\ ops' = [ops EXCEPT ![i].err = e]
    /\ UNCHANGED <<confVars, cfg, meter, dispVars, spans, instr, procDur, stopLog>>

\* The attributes Stop computes for an operation.
StopAttrs(op) ==
    LET r1 == GoAppend(op.instrumenter.defaultAttributes,
                       <<MessagingDestinationName(op.topic),
                         AttributeString("messaging.destination.partition.id",
                                         op.partition)>>)
        r2 == IF ~op.err.isNil
              THEN GoAppend([arr |-> r1.arr, len |-> r1.len],
                            <<AttributeString("error.type", ErrorText(op.err))>>)
              ELSE r1
    IN  SubSeq(r2.arr, 1, r2.len)

\* op.Stop(): span.End(), then Record on the operation's instrumenter's
\* histogram; a method call on the nil instrument panics.
Stop(i) ==
    /\ Len(stopLog) < MaxStops
    /\ spans' = [spans EXCEPT ![ops[i].span].ended = @ + 1]
    /\ IF ops[i].instrumenter.metricProcessDuration = NilInstrument
       THEN /\ stopLog' = Append(stopLog, [op |-> i, outcome |-> "panic", err |-> ops[i].err])
            /\ UNCHANGED procDur
       ELSE /\ procDur' = Append(procDur,
                   [attrs |-> StopAttrs(ops[i]), op |-> i,
                    instrument |-> ops[i].instrumenter.metricProcessDuration])
            /\ stopLog' = Append(stopLog, [op |-> i, outcome |-> "returned",
                                           err |-> ops[i].err])
    /\ UNCHANGED <<confVars, cfg, meter, dispVars, instr, ops>>

ProcNext ==
    \/ \E m \in Messages : NewProcessOperation(m)
    \/ \E i \in 1..Len(ops), e \in Errors \cup {NilErr} : SetError(i, e)
    \/ \E i \in 1..Len(ops) : Stop(i)

ProcSpec == Init /\ [][ProcNext]_vars

\* The consumer opens process operations for messages it received from the
\* wrapper: the spans of both components of one application.
TraceNext ==
    \/ \E m \in Messages : Produce(m)
    \/ CloseInput
    \/ RunRange
    \/ RunStart
    \/ RunSend
    \/ RunSpanEnd
    \/ RunRecord
    \/ RunAdd
    \/ RunClose
    \/ \E i \in 1..Len(delivered) : NewProcessOperation(delivered[i].content)

TraceSpec == Init /\ [][TraceNext]_vars

\* The application while its input stays open: the consumer receives from
\* the wrapper and brackets the processing of the message it received last
\* with a process operation.
AppNext ==
    \/ \E m \in Messages : Produce(m)
    \/ RunRange
    \/ RunStart
    \/ RunSend
    \/ RunSpanEnd
    \/ RunRecord
    \/ RunAdd
    \/ delivered # <<>> /\ NewProcessOperation(delivered[Len(delivered)].content)
    \/ \E i \in 1..Len(ops) : Stop(i)

\* Every configuration, with a meter that supplies its instruments.
AppInit == Init /\ meter = [Float64Histogram |-> "ok", Int64Counter |-> "ok"]

AppSpec == AppInit /\ [][AppNext]_vars
\* ---------------------------------------------------- newConfig, stepwise
\* for _, opt := range opts { opt.apply(&cfg) }
ApplyOption(o) ==
    /\ confPc = "applying"
    /\ Len(opts) < MaxOpts
    /\ opts' = Append(opts, o)
    /\ confs' = Append(confs, Apply(o, confs[Len(confs)]))
    /\ UNCHANGED <<confPc, resolved, cfg, meter, dispVars, spans, procVars>>

\* The rest of newConfig: the tracer and meter handles, return cfg.
Resolve ==
    /\ confPc = "applying"
    /\ resolved' = ResolveHandles(confs[Len(confs)])
    /\ confPc' = "resolved"
    /\ UNCHANGED <<opts, confs, cfg, meter, dispVars, spans, procVars>>

ConfigNext ==
    \/ \E o \in Options : ApplyOption(o)
    \/ Resolve

\* newConfig over every bounded option list, for one wrapper and instrumenter.
ConfigInit ==
    /\ Init
    /\ cfg = [ServerAddress |-> "", ServerPort |-> 0, ConsumerGroupID |-> ""]
    /\ meter = [Float64Histogram |-> "ok", Int64Counter |-> "ok"]

ConfigSpec == ConfigInit /\ [][ConfigNext]_vars

\* Run under the scheduling the runtime gives it: the goroutine keeps running,
\* and a send on w.messages completes while the consumer keeps receiving.
LiveSpec ==
    /\ Init
    /\ [][Next]_vars
    /\ WF_vars(RunRange \/ RunStart \/ RunSpanEnd \/ RunRecord \/ RunAdd \/ RunClose)
    /\ WF_vars(RunSend)

\* ================================================================= claims
\* Helpers over the recorded telemetry.
ReceiveSpansOf(r) == {k \in 1..Len(spans) : spans[k].owner = "receive" /\ spans[k].ref = r}

RecordsOf(log, r) == {k \in 1..Len(log) : log[k].ref = r}

DeliveredRefs == {delivered[k].ref : k \in 1..Len(delivered)}

\* References Run has taken from the input channel.
Taken == {fed[k].ref : k \in 1..(Len(fed) - Len(inQ))}

\* Messages whose loop iteration has run to its end.
Completed == {r \in Taken : r # msg \/ pc \in {"range", "done"}}

HasKey(as, k) == \E i \in 1..Len(as) : as[i].key = k

HasAttr(as, kv) == \E i \in 1..Len(as) : as[i] = kv

\* C1: the messages delivered on the wrapper's output are, in order, the
\* message references fed into the input, each with the content it was fed
\* with; no message object is ever altered; and once Run has returned, the
\* delivered sequence is the whole input sequence.
C1_ForwardsExactly ==
    /\ Len(delivered) <= Len(fed)
    /\ \A k \in 1..Len(delivered) : delivered[k] = fed[k]
    /\ \A k \in 1..Len(fed) : heap[fed[k].ref] = fed[k].content
    /\ pc = "done" => delivered = fed

C1_Witness ==
    /\ pc = "done"
    /\ Len(delivered) >= 2
    /\ delivered[1].content # delivered[2].content

\* C2: the output channel is closed at most once, and when it is closed the
\* input is closed and drained, and every message taken from it has been
\* delivered, has had its one receive span ended, and has its duration and
\* consumed-message measurements recorded.
C2_NoPrematureClose ==
    /\ outCloses <= 1
    /\ outCloses >= 1 =>
          /\ inClosed
          /\ inQ = <<>>
          /\ Taken = {fed[k].ref : k \in 1..Len(fed)}
          /\ \A r \in Taken :
                /\ r \in DeliveredRefs
                /\ \E k \in ReceiveSpansOf(r) : spans[k].ended = 1
                /\ RecordsOf(recvDur, r) # {}
                /\ RecordsOf(consumed, r) # {}

C2_Witness == outCloses = 1 /\ Len(delivered) >= 2

\* C3: once the input is closed, Run closes the output and returns, unless
\* the consumer stops receiving.
C3_ClosurePropagates ==
    inClosed ~> ((outCloses = 1 /\ pc = "done") \/ consumerStopped)

\* C4: for every message, at most one receive span is started, it is ended at
\* most once, and at most one duration measurement and one counter increment
\* are recorded; a message whose iteration is complete has exactly one of
\* each, the increment being 1. The span is named "<topic> receive" and
\* carries the offset as messaging.message.id; the metric attributes carry the
\* message's topic and partition and no messaging.message.id.
C4_OneSpanOneMeasurement ==
    /\ \A r \in 1..Len(heap) :
          /\ Cardinality(ReceiveSpansOf(r)) <= 1
          /\ Cardinality(RecordsOf(recvDur, r)) <= 1
          /\ Cardinality(RecordsOf(consumed, r)) <= 1
    /\ \A r \in Completed :
          /\ r \in DeliveredRefs
          /\ Cardinality(ReceiveSpansOf(r)) = 1
          /\ Cardinality(RecordsOf(recvDur, r)) = 1
          /\ Cardinality(RecordsOf(consumed, r)) = 1
          /\ \A k \in ReceiveSpansOf(r) : spans[k].ended = 1
    /\ \A k \in 1..Len(spans) :
          spans[k].owner = "receive" =>
             /\ spans[k].ended <= 1
             /\ spans[k].name = heap[spans[k].ref].Topic \o " receive"
             /\ HasAttr(spans[k].attrs,
                        AttributeString("messaging.message.id",
                                        FormatInt(heap[spans[k].ref].Offset)))
    /\ \A log \in {recvDur, consumed} : \A k \in 1..Len(log) :
          /\ HasAttr(log[k].attrs, MessagingDestinationName(heap[log[k].ref].Topic))
          /\ HasAttr(log[k].attrs,
                     AttributeString("messaging.destination.partition.id",
                                     FormatInt(heap[log[k].ref].Partition)))
          /\ ~HasKey(log[k].attrs, "messaging.message.id")
    /\ \A k \in 1..Len(consumed) : consumed[k].incr = 1

C4_Witness ==
    /\ Len(recvDur) >= 2
    /\ Len(consumed) >= 2
    /\ heap[1].Topic # heap[2].Topic
    /\ pc = "range"
\* C5 as stated: every message for which a receive span has been started is
\* delivered, or is about to be by a consumer that still receives; once the
\* consumer has stopped no started span belongs to an undelivered message.
C5_NoSpanWithoutForward ==
    \A k \in 1..Len(spans) :
        spans[k].owner = "receive" =>
            \/ spans[k].ref \in DeliveredRefs
            \/ (pc = "send" /\ msg = spans[k].ref /\ ~consumerStopped)

\* C5 amended: every message for which a receive span has been started is
\* delivered or is the one message Run is blocked sending (which stays
\* undelivered when the consumer has stopped); once Run has returned, every
\* such message has been delivered.
C5_SpanOnlyForForwardedOrInFlight ==
    /\ \A k \in 1..Len(spans) :
          spans[k].owner = "receive" =>
              \/ spans[k].ref \in DeliveredRefs
              \/ (pc = "send" /\ msg = spans[k].ref /\ span = k)
    /\ pc = "done" =>
          \A k \in 1..Len(spans) :
              spans[k].owner = "receive" => spans[k].ref \in DeliveredRefs

C5_Witness ==
    /\ consumerStopped
    /\ pc = "send"
    /\ Len(delivered) >= 1
    /\ spans[span].ref = msg
    /\ msg \notin DeliveredRefs

\* C6: the event log is the concatenation, in arrival order of the messages,
\* of one block per message: span start, forward, span end, record duration,
\* increment counter (the last block possibly unfinished).
EventOrder == <<"spanStart", "forward", "spanEnd", "record", "add">>

C6_TelemetryOrder ==
    \A k \in 1..Len(events) :
        /\ ((k - 1) \div Len(EventOrder)) + 1 <= Len(fed)
        /\ events[k] = [kind |-> EventOrder[((k - 1) % Len(EventOrder)) + 1],
                        ref |-> fed[((k - 1) \div Len(EventOrder)) + 1].ref]

C6_Witness ==
    /\ Len(events) >= 2 * Len(EventOrder)
    /\ events[Len(EventOrder) + 1].ref = 2

\* C7: a span started for a message whose headers carry a valid trace context
\* is linked to that context and does not have it as its parent.
C7_LinkedNotParented ==
    \A k \in 1..Len(spans) :
        \A j \in 1..Len(spans[k].links) :
            IsValid(spans[k].links[j].SpanContext) =>
                spans[k].parent # spans[k].links[j].SpanContext

\* C8: every Stop call returns normally having ended the span and recorded
\* one measurement on the instrumenter's process-duration histogram, with the
\* instrumenter's default attributes extended with destination and partition
\* (and no message id).
C8_StopRecordsOnInstrumenter ==
    /\ Len(procDur) = Len(stopLog)
    /\ \A k \in 1..Len(stopLog) :
          /\ stopLog[k].outcome = "returned"
          /\ spans[ops[stopLog[k].op].span].ended >= 1
          /\ procDur[k].op = stopLog[k].op
          /\ procDur[k].instrument = instr.metricProcessDuration
          /\ procDur[k].instrument # NilInstrument
          /\ SubSeq(procDur[k].attrs, 1, instr.defaultAttributes.len + 2) =
                Elems(instr.defaultAttributes)
                \o <<MessagingDestinationName(ops[stopLog[k].op].topic),
                     AttributeString("messaging.destination.partition.id",
                                     ops[stopLog[k].op].partition)>>
          /\ ~HasKey(procDur[k].attrs, "messaging.message.id")

\* C9: the measurement recorded by a Stop call has no error.type attribute
\* when no error was set at that call, and error.type equal to the error's
\* text when one was.
C9_ErrorTypeOnMeasurement ==
    \A k \in 1..Len(stopLog) :
        /\ k <= Len(procDur)
        /\ IF stopLog[k].err.isNil
           THEN ~HasKey(procDur[k].attrs, "error.type")
           ELSE HasAttr(procDur[k].attrs,
                        AttributeString("error.type", ErrorText(stopLog[k].err)))

\* C10: when the meter returned an error for an instrument, Run still never
\* dies, and having returned it has forwarded every input message.
AcquisitionFailed == meter.Float64Histogram # "ok" \/ meter.Int64Counter # "ok"

C10_TelemetryNonCritical ==
    AcquisitionFailed =>
        /\ pc # "panic"
        /\ pc = "done" => delivered = fed
\* ------------------------------------------------- configuration claims
\* The config after the options applied so far.
Conf == confs[Len(confs)]

OptsOfKind(kind) == {k \in 1..Len(opts) : opts[k].kind = kind}

Max(S) == CHOOSE x \in S : \A y \in S : y <= x

\* What the spec states a single brokerAddresses setting resolves to.
ExpectedBroker(addresses) ==
    CASE addresses = <<AddrLocalhost9092>> -> [address |-> "localhost", port |-> 9092]
      [] addresses = <<AddrNoPort>> -> [address |-> "h", port |-> 0]
      [] addresses = <<AddrBadPort>> -> [address |-> "h", port |-> 0]
      [] addresses = <<AddrA, AddrB>> -> [address |-> "a:9092;b:9093", port |-> 0]

\* C11: when the option list holds one brokerAddresses setting, the config
\* built from it, and the config newConfig returns, have the server address
\* and port the spec states for that setting: host and integer port for one
\* "host:port", host and no port for one address without a parsable port, the
\* ";"-joined list and no port for several addresses.
C11_BrokerAddressResolution ==
    \A k \in OptsOfKind("WithBrokerAddresses") :
        OptsOfKind("WithBrokerAddresses") = {k} =>
            LET c == IF confPc = "resolved" THEN resolved ELSE Conf
            IN  /\ c.ServerAddress = ExpectedBroker(opts[k].addresses).address
                /\ c.ServerPort = ExpectedBroker(opts[k].addresses).port
                /\ confs[k + 1].ServerAddress = ExpectedBroker(opts[k].addresses).address
                /\ confs[k + 1].ServerPort = ExpectedBroker(opts[k].addresses).port

C11_Witness ==
    /\ confPc = "resolved"
    /\ Len(opts) = 2
    /\ opts[1].kind = "WithConsumerGroup"
    /\ opts[2] = Option("WithBrokerAddresses", NilRef, <<AddrA, AddrB>>, "")
    /\ resolved.ServerAddress = "a:9092;b:9093"

\* C12: every field of the config equals what the last setting that sets it
\* gives on a fresh config (a nil provider or propagator sets nothing); after
\* a later brokerAddresses setting nothing of an earlier one survives.
C12_LastWriterWins ==
    LET last(S) == opts[Max(S)]
        tp == {k \in OptsOfKind("WithTracerProvider") : opts[k].ref # NilRef}
        pr == {k \in OptsOfKind("WithPropagators") : opts[k].ref # NilRef}
        ba == OptsOfKind("WithBrokerAddresses")
        cg == OptsOfKind("WithConsumerGroup")
    IN  /\ tp # {} => Conf.TracerProvider = last(tp).ref
        /\ pr # {} => Conf.Propagators = last(pr).ref
        /\ cg # {} => Conf.ConsumerGroupID = last(cg).groupID
        /\ ba # {} =>
              /\ Conf.ServerAddress = ExpectedBroker(last(ba).addresses).address
              /\ Conf.ServerPort = ExpectedBroker(last(ba).addresses).port

\* C13: for each of the five configuration inputs there is a setting that
\* changes its value in the config and leaves the other four as they are.
ConfigInputs ==
    {<<"TracerProvider">>, <<"MeterProvider">>, <<"Propagators">>,
     <<"ServerAddress", "ServerPort">>, <<"ConsumerGroupID">>}

InputValue(c, input) == [i \in 1..Len(input) |-> c[input[i]]]

C13_IndependentlyOverridable ==
    \A input \in ConfigInputs :
        \E o \in Options :
            /\ InputValue(Apply(o, Conf), input) # InputValue(Conf, input)
            /\ \A other \in ConfigInputs \ {input} :
                  InputValue(Apply(o, Conf), other) = InputValue(Conf, other)
\* The per-message attributes of the three operations, for message m.
ReceiveSpanExtension(m) ==
    <<MessagingDestinationName(m.Topic),
      AttributeString("messaging.destination.partition.id", FormatInt(m.Partition)),
      AttributeString("messaging.message.id", FormatInt(m.Offset))>>

ReceiveMetricExtension(m) ==
    <<MessagingDestinationName(m.Topic),
      AttributeString("messaging.destination.partition.id", FormatInt(m.Partition))>>

ProcessSpanExtension(m) ==
    <<MessagingDestinationName(m.Topic),
      AttributeString("messaging.message.id", FormatInt(m.Offset)),
      AttributeString("messaging.destination.partition.id", FormatInt(m.Partition))>>

\* C14: for every configuration of address, port and group, the elements of
\* the wrapper's and of the instrumenter's default attribute slice are at
\* all times those they were constructed with; every receive span carries
\* exactly the defaults followed by the topic, partition and offset of its
\* own message, every receive measurement and increment exactly the defaults
\* followed by the topic and partition of its own message, every process
\* span exactly the instrumenter's defaults followed by the topic, offset and
\* partition of the message it was opened for, and every process measurement
\* only the topic and partition of its operation.
C14_CopyOnExtend ==
    LET wDefaults == Elems(DispatcherDefaultAttributes(cfg))
        iDefaults == Elems(ProcessDefaultAttributes(cfg))
    IN  /\ Elems(w.defaultAttributes) = wDefaults
        /\ Elems(instr.defaultAttributes) = iDefaults
        /\ \A k \in 1..Len(spans) :
              /\ spans[k].owner = "receive" =>
                    spans[k].attrs = wDefaults \o ReceiveSpanExtension(heap[spans[k].ref])
              /\ spans[k].owner = "process" =>
                    \E m \in Messages :
                       /\ ops[spans[k].ref].topic = m.Topic
                       /\ ops[spans[k].ref].partition = FormatInt(m.Partition)
                       /\ spans[k].attrs = iDefaults \o ProcessSpanExtension(m)
        /\ \A log \in {recvDur, consumed} : \A k \in 1..Len(log) :
              log[k].attrs = wDefaults \o ReceiveMetricExtension(heap[log[k].ref])
        /\ \A k \in 1..Len(procDur) : \A j \in 1..Len(procDur[k].attrs) :
              /\ procDur[k].attrs[j].key = "messaging.destination.name"
                    => procDur[k].attrs[j]
                         = MessagingDestinationName(ops[procDur[k].op].topic)
              /\ procDur[k].attrs[j].key = "messaging.destination.partition.id"
                    => procDur[k].attrs[j]
                         = AttributeString("messaging.destination.partition.id",
                                           ops[procDur[k].op].partition)
              /\ procDur[k].attrs[j].key # "messaging.message.id"

\* Address, port and group are all configured, so Run's appends write into
\* the spare capacity of the wrapper's own array; two different messages
\* have passed through the whole loop body, and a process operation opened
\* for the second has been stopped.
C14_Witness ==
    /\ Len(w.defaultAttributes.arr) > w.defaultAttributes.len
    /\ attrs.alias
    /\ Len(consumed) = 2
    /\ heap[1] # heap[2]
    /\ w.defaultAttributes.arr[w.defaultAttributes.len + 1]
          = MessagingDestinationName(heap[2].Topic)
    /\ \E k \in 1..Len(spans) : spans[k].owner = "process"
    /\ stopLog # <<>>

\* The default attribute set the configuration c calls for.
ExpectedDefaults(c, operation) ==
    <<MessagingSystem("kafka"), AttributeString("messaging.operation.name", operation)>>
    \o (IF c.ServerAddress # ""
        THEN <<AttributeString("server.address", c.ServerAddress)>> ELSE <<>>)
    \o (IF c.ServerPort # 0
        THEN <<AttributeInt("server.port", c.ServerPort)>> ELSE <<>>)
    \o (IF c.ConsumerGroupID # ""
        THEN <<AttributeString("messaging.consumer.group.name", c.ConsumerGroupID)>>
        ELSE <<>>)

\* C15: the default attributes of the wrapper and of the instrumenter are
\* system name, operation name, the server address when non-empty, the
\* server port when set and the consumer group when non-empty; with a
\* consumer group configured every span, receive or process, carries the
\* consumer-group name.
C15_DefaultsCarryGroup ==
    /\ Elems(w.defaultAttributes) = ExpectedDefaults(cfg, "receive")
    /\ Elems(instr.defaultAttributes) = ExpectedDefaults(cfg, "process")
    /\ cfg.ConsumerGroupID # "" =>
          \A k \in 1..Len(spans) :
             HasAttr(spans[k].attrs,
                     AttributeString("messaging.consumer.group.name", cfg.ConsumerGroupID))

\* Some statement of Run can execute.
RunCanStep ==
    ENABLED (RunRange \/ RunStart \/ RunSend \/ RunSpanEnd \/ RunRecord \/ RunAdd
             \/ RunClose)

\* C16: the messages taken from the input and not yet received by the
\* consumer are at most one, namely the message of the current iteration
\* before its send has completed, so the next message is taken only after
\* the previous one was delivered; and whenever Run cannot take a step it
\* is waiting on the open, empty input, or at the send with no consumer
\* receiving, or has terminated.
C16_Backpressure ==
    /\ Cardinality(Taken \ DeliveredRefs) <= 1
    /\ Taken \ DeliveredRefs \subseteq {msg}
    /\ Taken \ DeliveredRefs # {} => pc \in {"start", "send"}
    /\ pc \in {"range", "done"} => Len(delivered) = Len(fed) - Len(inQ)
    /\ ~RunCanStep =>
          \/ pc = "range" /\ inQ = <<>> /\ ~inClosed
          \/ pc = "send" /\ consumerStopped
          \/ pc \in {"done", "panic"}

\* One message was delivered, the second is held at the send with the
\* consumer no longer receiving, and Run is blocked.
C16_Witness ==
    /\ pc = "send"
    /\ consumerStopped
    /\ Len(delivered) = 1
    /\ Cardinality(Taken) = 2
    /\ ~RunCanStep

\* The Stop calls made on, and the measurements recorded for, operation i.
StopsOf(i) == {k \in 1..Len(stopLog) : stopLog[k].op = i}

MeasurementsOf(i) == {k \in 1..Len(procDur) : procDur[k].op = i}

\* C17: for every operation, the k Stop calls made on it so far have ended
\* its span k times and recorded k process-duration measurements; the
\* measurement of each Stop call has error.type equal to the text of the
\* error last set before that call, and none when that value was nil,
\* whatever SetError calls came later.
C17_StopsUnguarded ==
    /\ \A i \in 1..Len(ops) :
          /\ spans[ops[i].span].ended = Cardinality(StopsOf(i))
          /\ Cardinality(MeasurementsOf(i)) = Cardinality(StopsOf(i))
    /\ \A k \in 1..Len(stopLog) :
          /\ k <= Len(procDur)
          /\ procDur[k].op = stopLog[k].op
          /\ HasKey(procDur[k].attrs, "error.type") <=> ~stopLog[k].err.isNil
          /\ ~stopLog[k].err.isNil =>
                HasAttr(procDur[k].attrs,
                        AttributeString("error.type", ErrorText(stopLog[k].err)))

\* Receive spans started and not yet ended.
OpenReceiveSpans == {k \in 1..Len(spans) : spans[k].owner = "receive" /\ spans[k].ended = 0}

\* C18: at most one receive span is started and not ended; it is the span
\* of the current iteration, started for the message currently taken from
\* the input, before span.End() has run; once Run has terminated no receive
\* span is open; no receive span is ended more than once, and every receive
\* span other than the open one has been ended exactly once.
C18_OneOpenReceiveSpan ==
    /\ Cardinality(OpenReceiveSpans) <= 1
    /\ \A k \in OpenReceiveSpans :
          /\ k = span
          /\ spans[k].ref = msg
          /\ msg \in Taken
          /\ pc \in {"send", "end"}
    /\ pc \in {"done", "panic"} => OpenReceiveSpans = {}
    /\ \A k \in 1..Len(spans) :
          spans[k].owner = "receive" =>
             /\ spans[k].ended <= 1
             /\ k \notin OpenReceiveSpans => spans[k].ended = 1

\* The first message's span has been ended and the second message's span is
\* open while its message is being sent.
C18_Witness ==
    /\ Len(spans) = 2
    /\ spans[1].ended = 1
    /\ OpenReceiveSpans = {2}
    /\ pc = "send"

\* C19: for every option list, nil-valued options included, the tracer
\* provider and the propagators of the config are never nil: each is the last
\* non-nil value an option supplied, or the global when none did; an option
\* with a nil value leaves the whole config as it was; and the same holds of
\* the config newConfig returns.
C19_ProvidersNeverNil ==
    LET tp == {k \in OptsOfKind("WithTracerProvider") : opts[k].ref # NilRef}
        pr == {k \in OptsOfKind("WithPropagators") : opts[k].ref # NilRef}
    IN  /\ \A k \in 1..Len(confs) :
              confs[k].TracerProvider # NilRef /\ confs[k].Propagators # NilRef
        /\ Conf.TracerProvider = IF tp = {} THEN GlobalTracerProvider ELSE opts[Max(tp)].ref
        /\ Conf.Propagators = IF pr = {} THEN GlobalTextMapPropagator ELSE opts[Max(pr)].ref
        /\ \A k \in OptsOfKind("WithTracerProvider") \cup OptsOfKind("WithPropagators") :
              opts[k].ref = NilRef => confs[k + 1] = confs[k]
        /\ confPc = "resolved" =>
              /\ resolved.TracerProvider = Conf.TracerProvider
              /\ resolved.Propagators = Conf.Propagators
              /\ resolved.Tracer.provider # NilRef

C19_Witness ==
    /\ confPc = "resolved"
    /\ Len(opts) = 2
    /\ opts[1] = Option("WithTracerProvider", "tp1", <<>>, "")
    /\ opts[2] = Option("WithTracerProvider", NilRef, <<>>, "")
    /\ resolved.TracerProvider = "tp1"
====
